---- MODULE Spec2Model ----
(***************************************************************************)
(* Gamification core of Jupityr: the Player model                          *)
(* (jupityr/gamification/models/player.py) and the GameEngine              *)
(* (jupityr/gamification/engine/game_engine.py).                           *)
(*                                                                         *)
(* Challenge objects are Python objects passed by reference, so they live  *)
(* in an explicit heap (challenge_objects); the catalog and the players'   *)
(* _challenges dictionaries hold references (heap indices) to them.        *)
(* Every call is one atomic action (the engine is single-threaded and      *)
(* synchronous); lastOp records the call, its arguments, its result and    *)
(* the target player's record before the call, together with the trace of  *)
(* the call: the rules its evaluation pass visited and the listeners it     *)
(* invoked, in order. ncalls counts the calls made so far.                  *)
(***************************************************************************)
EXTENDS Integers, Sequences, FiniteSets, TLC

VARIABLES players, player_keys, achievement_rules, challenge_catalog,
          challenge_objects, event_listeners, completions, lastOp, ncalls

vars == <<players, player_keys, achievement_rules, challenge_catalog,
          challenge_objects, event_listeners, completions, lastOp, ncalls>>

----------------------------------------------------------------------------
(* Bound of the model: the number of calls a behaviour makes *)

MaxCalls == 7

----------------------------------------------------------------------------
(* Input domains *)

PlayerIds == {"p1", "p2"}
Usernames == {"alice", "bob"}
Registrations == {<<"p1", "alice">>, <<"p1", "bob">>, <<"p2", "bob">>}
ChallengeIds == {"c1", "c2"}
Amounts == {0, 100, 300}
PlayerAmounts == {0, 50, 100, 150, 200, 300}

Skill == {"nlp", "machine_learning", "data_analysis", "programming"}

AchievementTemplates ==
    { [id |-> "a1", points |-> 100],
      [id |-> "a2", points |-> 50],
      [id |-> "a1", points |-> 50] }

RuleTemplates ==
    { [achievement |-> [id |-> "a1", points |-> 100],
       condition |-> [kind |-> "level", n |-> 2]],
      [achievement |-> [id |-> "a2", points |-> 50],
       condition |-> [kind |-> "points", n |-> 100]] }

ChallengeTemplates ==
    { [id |-> "c1", points |-> 50, skills |-> <<"nlp">>, completed |-> FALSE],
      [id |-> "c2", points |-> 150, skills |-> <<"programming", "programming">>,
       completed |-> FALSE] }

----------------------------------------------------------------------------
(* Helpers *)

(* the keys of GameEngine._event_listeners *)
Events == {"level_up", "achievement_earned", "challenge_completed"}

(* the event names a client passes to on() *)
EventNames == Events \cup {"player_registered"}

(* the amount and the challenge of the calls made next to listeners: 100   *)
(* experience levels a new player up and does not level a level 2 player   *)
(* up; the challenge's 150 points satisfy the points rule                  *)
EventAmounts == {100}
EventChallenges == {c \in ChallengeTemplates : c.id = "c2"}

(* the rules and amounts of the calls that take a player to level 5: the   *)
(* rule "a5 when level >= 5" next to the level rule of RuleTemplates       *)
LevelFiveRule ==
    [achievement |-> [id |-> "a5", points |-> 100],
     condition |-> [kind |-> "level", n |-> 5]]
LevelRules ==
    {LevelFiveRule} \cup {r \in RuleTemplates : r.condition.kind = "level"}
LevelAmounts == {0, 300}

(* the players, achievements and top_n arguments of the leaderboard        *)
(* queries                                                                 *)
BoardIds == {"p1", "p2", "p3"}
BoardUsername == [p \in BoardIds |->
                     IF p = "p1" THEN "alice" ELSE IF p = "p2" THEN "bob"
                     ELSE "carol"]
BoardAchievements ==
    { [id |-> "b1", points |-> 10],
      [id |-> "b2", points |-> 20],
      [id |-> "b3", points |-> 30] }
TopNs == 0..4

(* the callables a client registers: one that returns and one that raises *)
Listeners ==
    { [name |-> "l1", raises |-> FALSE],
      [name |-> "l2", raises |-> TRUE] }

Range(s) == { s[i] : i \in 1..Len(s) }

NoRef == 0

NoAchievement == [id |-> "-", points |-> 0]

NoPlayer ==
    [player_id |-> "-", username |-> "-", level |-> 0, experience |-> 0,
     experience_added |-> 0, total_points |-> 0, achievements |-> <<>>,
     challenges |-> [c \in ChallengeIds |-> NoRef],
     skill_levels |-> [s \in Skill |-> 0]]

(* Player.__init__; experience_added is the history of the player: the sum *)
(* of the amounts passed to its add_experience so far                      *)
NewPlayer(player_id, username) ==
    [player_id |-> player_id, username |-> username, level |-> 1,
     experience |-> 0, experience_added |-> 0, total_points |-> 0,
     achievements |-> <<>>,
     challenges |-> [c \in ChallengeIds |-> NoRef],
     skill_levels |-> [s \in Skill |-> 0]]

(* GameEngine.get_player: the player record, or NoPlayer for None *)
get_player(player_id) ==
    IF player_id \in DOMAIN players THEN players[player_id] ELSE NoPlayer

----------------------------------------------------------------------------
(* Player methods, as functions from the player record (and the heap) to   *)
(* the updated record and the return value                                 *)

(* add_experience with "self.experience = 0" on a level-up (reset instead of *)
(* carry-over)                                                              *)
add_experience_reset(pl, amount) ==
    LET experience == pl.experience + amount
        required_exp == 100 * pl.level
    IN  IF experience >= required_exp
        THEN [player |-> [pl EXCEPT !.level = pl.level + 1, !.experience = 0,
                                    !.experience_added = @ + amount],
              ret |-> TRUE]
        ELSE [player |-> [pl EXCEPT !.experience = experience,
                                    !.experience_added = @ + amount],
              ret |-> FALSE]

(* add_experience with "self.experience = amount" (assignment instead of +=) *)
add_experience_assign(pl, amount) ==
    LET experience == amount
        required_exp == 100 * pl.level
    IN  IF experience >= required_exp
        THEN [player |-> [pl EXCEPT !.level = pl.level + 1,
                                    !.experience = experience - required_exp,
                                    !.experience_added = @ + amount],
              ret |-> TRUE]
        ELSE [player |-> [pl EXCEPT !.experience = experience,
                                    !.experience_added = @ + amount],
              ret |-> FALSE]

(* Player.add_experience *)
add_experience(pl, amount) ==
    LET experience == pl.experience + amount
        required_exp == 100 * pl.level
    IN  IF experience >= required_exp
        THEN [player |-> [pl EXCEPT !.level = pl.level + 1,
                                    !.experience = experience - required_exp,
                                    !.experience_added = @ + amount],
              ret |-> TRUE]
        ELSE [player |-> [pl EXCEPT !.experience = experience,
                                    !.experience_added = @ + amount],
              ret |-> FALSE]

(* earn_achievement without the "id not in ..." test *)
earn_achievement_unchecked(pl, achievement) ==
    add_experience(
        [pl EXCEPT !.achievements = Append(pl.achievements, achievement),
                   !.total_points = pl.total_points + achievement.points],
        achievement.points).player

(* earn_achievement with "self.total_points = achievement.points" *)
earn_achievement_assign(pl, achievement) ==
    IF achievement.id \notin { a.id : a \in Range(pl.achievements) }
    THEN add_experience(
             [pl EXCEPT !.achievements = Append(pl.achievements, achievement),
                        !.total_points = achievement.points],
             achievement.points).player
    ELSE pl

(* Player.earn_achievement *)
earn_achievement(pl, achievement) ==
    IF achievement.id \notin { a.id : a \in Range(pl.achievements) }
    THEN add_experience(
             [pl EXCEPT !.achievements = Append(pl.achievements, achievement),
                        !.total_points = pl.total_points + achievement.points],
             achievement.points).player
    ELSE pl

(* start_challenge without the "not in self._challenges" test: the passed  *)
(* object takes the place of the tracked one                               *)
start_challenge_overwrite(pl, challenge) ==
    [pl EXCEPT !.challenges[challenge_objects[challenge].id] = challenge]

(* Player.start_challenge: challenge is a reference to a Challenge object *)
start_challenge(pl, challenge) ==
    IF pl.challenges[challenge_objects[challenge].id] = NoRef
    THEN [pl EXCEPT !.challenges[challenge_objects[challenge].id] = challenge]
    ELSE pl

(* the loop "for skill in challenge.skills: self._skill_levels[skill] += 1" *)
RECURSIVE increase_skill_levels(_, _)
increase_skill_levels(skill_levels, skills) ==
    IF skills = <<>>
    THEN skill_levels
    ELSE increase_skill_levels(
             [skill_levels EXCEPT ![Head(skills)] = skill_levels[Head(skills)] + 1],
             Tail(skills))

(* complete_challenge without the "if not challenge.completed" test *)
complete_challenge_again(pl, objects, challenge_id) ==
    IF pl.challenges[challenge_id] # NoRef
    THEN LET ref == pl.challenges[challenge_id]
             challenge == objects[ref]
             awarded == add_experience(
                 [pl EXCEPT !.total_points = pl.total_points + challenge.points],
                 challenge.points).player
         IN  [player |-> [awarded EXCEPT !.skill_levels =
                              increase_skill_levels(awarded.skill_levels,
                                                    challenge.skills)],
              objects |-> [objects EXCEPT ![ref].completed = TRUE],
              ret |-> TRUE]
    ELSE [player |-> pl, objects |-> objects, ret |-> FALSE]

(* Player.complete_challenge: the updated player, the updated heap and the *)
(* return value                                                            *)
complete_challenge(pl, objects, challenge_id) ==
    IF pl.challenges[challenge_id] # NoRef
       /\ ~objects[pl.challenges[challenge_id]].completed
    THEN LET ref == pl.challenges[challenge_id]
             challenge == objects[ref]
             awarded == add_experience(
                 [pl EXCEPT !.total_points = pl.total_points + challenge.points],
                 challenge.points).player
         IN  [player |-> [awarded EXCEPT !.skill_levels =
                              increase_skill_levels(awarded.skill_levels,
                                                    challenge.skills)],
              objects |-> [objects EXCEPT ![ref].completed = TRUE],
              ret |-> TRUE]
    ELSE [player |-> pl, objects |-> objects, ret |-> FALSE]

----------------------------------------------------------------------------
(* GameEngine helpers *)

(* AchievementRule.check: the rule's condition, one of the two predicate   *)
(* kinds the model draws rules from, evaluated on the player's state       *)
check(rule, pl) ==
    IF rule.condition.kind = "level"
    THEN pl.level >= rule.condition.n
    ELSE pl.total_points >= rule.condition.n

(* one entry of a call's trace: a visit of the rule at position rule by the *)
(* evaluation pass (event "rule"), or the invocation of a listener of an    *)
(* event; arg is the achievement or challenge id concerned, outcome is      *)
(* "held", "false" or "granted" for a rule and "returned" or "raised" for a *)
(* listener; level and total_points are the player's at that moment         *)
Entry(event, listener, rule, arg, outcome, pl) ==
    [event |-> event, listener |-> listener, rule |-> rule, arg |-> arg,
     outcome |-> outcome, level |-> pl.level,
     total_points |-> pl.total_points]

(* _trigger_event that catches a listener's exception and goes on with the *)
(* next listener                                                           *)
RECURSIVE trigger_event_isolated(_, _, _, _, _, _)
trigger_event_isolated(listeners, i, event, pl, arg, trace) ==
    IF i > Len(listeners)
    THEN [trace |-> trace, raised |-> FALSE]
    ELSE trigger_event_isolated(
             listeners, i + 1, event, pl, arg,
             Append(trace, Entry(event, listeners[i].name, 0, arg,
                                 "returned", pl)))

(* GameEngine._trigger_event: the loop over the event's listeners from      *)
(* index i on; a listener that raises ends the loop and the exception       *)
(* leaves _trigger_event                                                    *)
RECURSIVE trigger_event(_, _, _, _, _, _)
trigger_event(listeners, i, event, pl, arg, trace) ==
    IF i > Len(listeners)
    THEN [trace |-> trace, raised |-> FALSE]
    ELSE IF listeners[i].raises
         THEN [trace |-> Append(trace, Entry(event, listeners[i].name, 0, arg,
                                             "raised", pl)),
               raised |-> TRUE]
         ELSE trigger_event(
                  listeners, i + 1, event, pl, arg,
                  Append(trace, Entry(event, listeners[i].name, 0, arg,
                                      "returned", pl)))

(* GameEngine._check_achievements: the loop over the rules from index i on; *)
(* yields the updated player, the list of newly earned achievements, the    *)
(* trace extended by the visits and the achievement_earned invocations, and *)
(* whether a listener's exception ended the loop                            *)
RECURSIVE check_achievements_from(_, _, _, _, _, _)
check_achievements_from(pl, rules, listeners, i, new_achievements, trace) ==
    IF i > Len(rules)
    THEN [player |-> pl, new_achievements |-> new_achievements,
          trace |-> trace, raised |-> FALSE]
    ELSE LET rule == rules[i]
             has_achievement ==
                 \E k \in 1..Len(pl.achievements) :
                     pl.achievements[k].id = rule.achievement.id
         IN  IF ~has_achievement /\ check(rule, pl)
             THEN LET earned == earn_achievement(pl, rule.achievement)
                      fired ==
                          trigger_event(
                              listeners["achievement_earned"], 1,
                              "achievement_earned", earned,
                              rule.achievement.id,
                              Append(trace, Entry("rule", "-", i,
                                                  rule.achievement.id,
                                                  "granted", pl)))
                  IN  IF fired.raised
                      THEN [player |-> earned,
                            new_achievements |->
                                Append(new_achievements, rule.achievement),
                            trace |-> fired.trace, raised |-> TRUE]
                      ELSE check_achievements_from(
                               earned, rules, listeners, i + 1,
                               Append(new_achievements, rule.achievement),
                               fired.trace)
             ELSE check_achievements_from(
                      pl, rules, listeners, i + 1, new_achievements,
                      Append(trace, Entry("rule", "-", i, rule.achievement.id,
                                          IF has_achievement THEN "held"
                                          ELSE "false", pl)))

(* a pass that ends after the first rule *)
check_achievements_first(pl, rules, listeners, trace) ==
    check_achievements_from(pl, IF rules = <<>> THEN rules ELSE <<rules[1]>>,
                            listeners, 1, <<>>, trace)

(* GameEngine._check_achievements *)
check_achievements(pl, rules, listeners, trace) ==
    check_achievements_from(pl, rules, listeners, 1, <<>>, trace)

(* the record of a call: its name, arguments, result, and the target       *)
(* player as get_player saw it before the call                             *)
Call(op, player_id, username, challenge_id, achievement, amount, ret, pre) ==
    [op |-> op, player_id |-> player_id, username |-> username,
     challenge_id |-> challenge_id, achievement |-> achievement,
     amount |-> amount, ret |-> ret, pre |-> pre, trace |-> <<>>,
     board |-> <<>>]

----------------------------------------------------------------------------
(* State after GameEngine.__init__ *)

Init ==
    /\ players = [p \in {} |-> NoPlayer]
    /\ player_keys = <<>>
    /\ achievement_rules = <<>>
    /\ challenge_catalog = [c \in ChallengeIds |-> NoRef]
    /\ challenge_objects = <<>>
    /\ event_listeners = [e \in Events |-> <<>>]
    /\ completions = {}
    /\ lastOp = Call("__init__", "-", "-", "-", NoAchievement, 0, "None", NoPlayer)
    /\ ncalls = 0

----------------------------------------------------------------------------
(* GameEngine operations *)

(* register_player without the "already exists" test: the dictionary entry *)
(* is overwritten and the key keeps its place                              *)
register_player_overwrite(player_id, username) ==
    /\ players' = [p \in DOMAIN players \cup {player_id} |->
                      IF p = player_id THEN NewPlayer(player_id, username)
                      ELSE players[p]]
    /\ player_keys' = IF player_id \in DOMAIN players THEN player_keys
                      ELSE Append(player_keys, player_id)
    /\ lastOp' = Call("register_player", player_id, username, "-",
                      NoAchievement, 0, "Player", get_player(player_id))
    /\ UNCHANGED <<achievement_rules, challenge_catalog, challenge_objects,
                   completions, event_listeners>>

(* GameEngine.register_player *)
register_player(player_id, username) ==
    IF player_id \in DOMAIN players
    THEN /\ lastOp' = Call("register_player", player_id, username, "-",
                           NoAchievement, 0, "ValueError", get_player(player_id))
         /\ UNCHANGED <<players, player_keys, achievement_rules,
                        challenge_catalog, challenge_objects, completions,
                        event_listeners>>
    ELSE /\ players' = [p \in DOMAIN players \cup {player_id} |->
                           IF p = player_id THEN NewPlayer(player_id, username)
                           ELSE players[p]]
         /\ player_keys' = Append(player_keys, player_id)
         /\ lastOp' = Call("register_player", player_id, username, "-",
                           NoAchievement, 0, "Player", NoPlayer)
         /\ UNCHANGED <<achievement_rules, challenge_catalog,
                        challenge_objects, completions, event_listeners>>

(* GameEngine.add_achievement_rule *)
add_achievement_rule(rule) ==
    /\ achievement_rules' = Append(achievement_rules, rule)
    /\ lastOp' = Call("add_achievement_rule", "-", "-", "-", rule.achievement,
                      0, "None", NoPlayer)
    /\ UNCHANGED <<players, player_keys, challenge_catalog,
                   challenge_objects, completions, event_listeners>>

(* GameEngine.add_challenge, called with a freshly constructed Challenge *)
add_challenge(challenge) ==
    /\ challenge_objects' = Append(challenge_objects, challenge)
    /\ challenge_catalog' =
           [challenge_catalog EXCEPT ![challenge.id] = Len(challenge_objects) + 1]
    /\ lastOp' = Call("add_challenge", "-", "-", challenge.id, NoAchievement,
                      0, "None", NoPlayer)
    /\ UNCHANGED <<players, player_keys, achievement_rules, completions,
                   event_listeners>>

(* GameEngine.assign_challenge *)
assign_challenge(player_id, challenge_id) ==
    LET player == get_player(player_id)
        challenge == challenge_catalog[challenge_id]
    IN  IF player_id \in DOMAIN players /\ challenge # NoRef
        THEN /\ players' = [players EXCEPT
                               ![player_id] = start_challenge(player, challenge)]
             /\ lastOp' = Call("assign_challenge", player_id, "-", challenge_id,
                               NoAchievement, 0, "True", player)
             /\ UNCHANGED <<player_keys, achievement_rules,
                            challenge_catalog, challenge_objects,
                            completions, event_listeners>>
        ELSE /\ lastOp' = Call("assign_challenge", player_id, "-", challenge_id,
                               NoAchievement, 0, "False", player)
             /\ UNCHANGED <<players, player_keys, achievement_rules,
                            challenge_catalog, challenge_objects,
                            completions, event_listeners>>

(* complete_player_challenge with the two steps after the completion      *)
(* exchanged: the rules are evaluated first, the challenge_completed       *)
(* listeners run last                                                      *)
complete_player_challenge_pass_first(player_id, challenge_id) ==
    LET player == get_player(player_id)
        done == complete_challenge(player, challenge_objects, challenge_id)
        checked == check_achievements(done.player, achievement_rules,
                                      event_listeners, <<>>)
        fired == IF checked.raised
                 THEN [trace |-> checked.trace, raised |-> TRUE]
                 ELSE trigger_event(event_listeners["challenge_completed"], 1,
                                    "challenge_completed", checked.player,
                                    challenge_id, checked.trace)
    IN  IF player_id \in DOMAIN players /\ done.ret
        THEN /\ players' = [players EXCEPT ![player_id] = checked.player]
             /\ challenge_objects' = done.objects
             /\ completions' = completions \cup {<<player_id, challenge_id>>}
             /\ lastOp' =
                    [Call("complete_player_challenge", player_id, "-",
                          challenge_id, NoAchievement, 0,
                          IF fired.raised THEN "Exception" ELSE "True", player)
                     EXCEPT !.trace = fired.trace]
             /\ UNCHANGED <<player_keys, achievement_rules,
                            challenge_catalog, event_listeners>>
        ELSE /\ lastOp' = Call("complete_player_challenge", player_id, "-",
                               challenge_id, NoAchievement, 0, "False", player)
             /\ UNCHANGED <<players, player_keys, achievement_rules,
                            challenge_catalog, challenge_objects,
                            event_listeners, completions>>

(* GameEngine.complete_player_challenge; an exception of a listener leaves *)
(* the call after the updates made up to that point                        *)
complete_player_challenge(player_id, challenge_id) ==
    LET player == get_player(player_id)
    IN  IF player_id \notin DOMAIN players
        THEN /\ lastOp' = Call("complete_player_challenge", player_id, "-",
                               challenge_id, NoAchievement, 0, "False", player)
             /\ UNCHANGED <<players, player_keys, achievement_rules,
                            challenge_catalog, challenge_objects,
                            event_listeners, completions>>
        ELSE LET done == complete_challenge(player, challenge_objects,
                                            challenge_id)
                 fired == trigger_event(
                              event_listeners["challenge_completed"], 1,
                              "challenge_completed", done.player,
                              challenge_id, <<>>)
                 checked == check_achievements(done.player, achievement_rules,
                                               event_listeners, fired.trace)
             IN  IF done.ret
                 THEN /\ players' = [players EXCEPT ![player_id] =
                              IF fired.raised THEN done.player
                              ELSE checked.player]
                      /\ challenge_objects' = done.objects
                      /\ completions' =
                             completions \cup {<<player_id, challenge_id>>}
                      /\ lastOp' =
                             [Call("complete_player_challenge", player_id,
                                   "-", challenge_id, NoAchievement, 0,
                                   IF fired.raised \/ checked.raised
                                   THEN "Exception" ELSE "True", player)
                              EXCEPT !.trace = IF fired.raised THEN fired.trace
                                               ELSE checked.trace]
                      /\ UNCHANGED <<player_keys, achievement_rules,
                                     challenge_catalog, event_listeners>>
                 ELSE /\ lastOp' = Call("complete_player_challenge", player_id,
                                        "-", challenge_id, NoAchievement, 0,
                                        "False", player)
                      /\ UNCHANGED <<players, player_keys, achievement_rules,
                                     challenge_catalog, challenge_objects,
                                     event_listeners, completions>>

(* GameEngine.award_experience; an exception of a listener leaves the call *)
(* after the updates made up to that point                                 *)
award_experience(player_id, amount) ==
    LET player == get_player(player_id)
    IN  IF player_id \notin DOMAIN players
        THEN /\ lastOp' = Call("award_experience", player_id, "-", "-",
                               NoAchievement, amount, "False", player)
             /\ UNCHANGED <<players, player_keys, achievement_rules,
                            challenge_catalog, challenge_objects,
                            event_listeners, completions>>
        ELSE LET added == add_experience(player, amount)
                 leveled_up == added.ret
                 fired == IF leveled_up
                          THEN trigger_event(event_listeners["level_up"], 1,
                                             "level_up", added.player, "-",
                                             <<>>)
                          ELSE [trace |-> <<>>, raised |-> FALSE]
                 checked == check_achievements(added.player, achievement_rules,
                                               event_listeners, fired.trace)
             IN  /\ players' = [players EXCEPT ![player_id] =
                         IF fired.raised THEN added.player
                         ELSE checked.player]
                 /\ lastOp' =
                        [Call("award_experience", player_id, "-", "-",
                              NoAchievement, amount,
                              IF fired.raised \/ checked.raised
                              THEN "Exception"
                              ELSE IF leveled_up THEN "True" ELSE "False",
                              player)
                         EXCEPT !.trace = IF fired.raised THEN fired.trace
                                          ELSE checked.trace]
                 /\ UNCHANGED <<player_keys, achievement_rules,
                                challenge_catalog, challenge_objects,
                                event_listeners, completions>>

(* on without the "if event in self._event_listeners" test: a list is      *)
(* started for an event name that has none                                 *)
on_any_event(event, listener) ==
    /\ event_listeners' =
           [e \in DOMAIN event_listeners \cup {event} |->
               IF e = event
               THEN Append(IF e \in DOMAIN event_listeners
                           THEN event_listeners[e] ELSE <<>>, listener)
               ELSE event_listeners[e]]
    /\ lastOp' = [Call("on", "-", "-", "-", NoAchievement, 0, "None", NoPlayer)
                  EXCEPT !.username = listener.name, !.challenge_id = event]
    /\ UNCHANGED <<players, player_keys, achievement_rules, challenge_catalog,
                   challenge_objects, completions>>

(* GameEngine.on; the call record holds the event name in challenge_id and *)
(* the listener's name in username                                         *)
on(event, listener) ==
    /\ event_listeners' =
           IF event \in DOMAIN event_listeners
           THEN [event_listeners EXCEPT ![event] = Append(@, listener)]
           ELSE event_listeners
    /\ lastOp' = [Call("on", "-", "-", "-", NoAchievement, 0, "None", NoPlayer)
                  EXCEPT !.username = listener.name, !.challenge_id = event]
    /\ UNCHANGED <<players, player_keys, achievement_rules, challenge_catalog,
                   challenge_objects, completions>>

(* sorted(..., key=total_points, reverse=True) taken as an insertion that  *)
(* puts a player before the players with equal points                      *)
sorted_insert_first(sorted_ids, player_id, all) ==
    LET above == Cardinality({i \in 1..Len(sorted_ids) :
                     all[sorted_ids[i]].total_points
                         > all[player_id].total_points})
    IN  SubSeq(sorted_ids, 1, above) \o <<player_id>>
            \o SubSeq(sorted_ids, above + 1, Len(sorted_ids))

(* one step of sorted(..., key=total_points, reverse=True): the sort is    *)
(* stable, a player goes behind the players with at least as many points   *)
sorted_insert(sorted_ids, player_id, all) ==
    LET above == Cardinality({i \in 1..Len(sorted_ids) :
                     all[sorted_ids[i]].total_points
                         >= all[player_id].total_points})
    IN  SubSeq(sorted_ids, 1, above) \o <<player_id>>
            \o SubSeq(sorted_ids, above + 1, Len(sorted_ids))

(* sorted(self._players.values(), key=..., reverse=True) over the first n   *)
(* players of the dictionary, which iterates in insertion order            *)
RECURSIVE sorted_players(_, _, _)
sorted_players(keys, n, all) ==
    IF n = 0 THEN <<>>
    ELSE sorted_insert(sorted_players(keys, n - 1, all), keys[n], all)

(* Player.get_progress_summary, the fields the leaderboard is read by *)
get_progress_summary(pl) ==
    [username |-> pl.username, level |-> pl.level,
     experience |-> pl.experience, total_points |-> pl.total_points,
     achievements_count |-> Len(pl.achievements)]

(* GameEngine.get_leaderboard, top_n >= 0 *)
get_leaderboard(top_n) ==
    LET ids == sorted_players(player_keys, Len(player_keys), players)
        top == SubSeq(ids, 1, IF top_n < Len(ids) THEN top_n ELSE Len(ids))
    IN  /\ lastOp' =
               [Call("get_leaderboard", "-", "-", "-", NoAchievement, top_n,
                     "List", NoPlayer)
                EXCEPT !.board =
                    [idx \in 1..Len(top) |->
                        [rank |-> idx,
                         summary |-> get_progress_summary(players[top[idx]])]]]
        /\ UNCHANGED <<players, player_keys, achievement_rules,
                       challenge_catalog, challenge_objects, event_listeners,
                       completions>>

----------------------------------------------------------------------------
(* Direct calls of the Player methods on a registered player (the engine   *)
(* hands out the Player objects from register_player and get_player)       *)

(* Player.add_experience, called by the client *)
player_add_experience(player_id, amount) ==
    /\ player_id \in DOMAIN players
    /\ LET added == add_experience(players[player_id], amount)
       IN  /\ players' = [players EXCEPT ![player_id] = added.player]
           /\ lastOp' = Call("add_experience", player_id, "-", "-",
                             NoAchievement, amount,
                             IF added.ret THEN "True" ELSE "False",
                             players[player_id])
    /\ UNCHANGED <<player_keys, achievement_rules, challenge_catalog,
                   challenge_objects, completions, event_listeners>>

(* Player.earn_achievement, called by the client *)
player_earn_achievement(player_id, achievement) ==
    /\ player_id \in DOMAIN players
    /\ players' = [players EXCEPT ![player_id] =
                       earn_achievement(players[player_id], achievement)]
    /\ lastOp' = Call("earn_achievement", player_id, "-", "-", achievement, 0,
                      "None", players[player_id])
    /\ UNCHANGED <<player_keys, achievement_rules, challenge_catalog,
                   challenge_objects, completions, event_listeners>>

(* Player.complete_challenge, called by the client *)
player_complete_challenge(player_id, challenge_id) ==
    /\ player_id \in DOMAIN players
    /\ LET done == complete_challenge(players[player_id], challenge_objects,
                                      challenge_id)
       IN  /\ players' = [players EXCEPT ![player_id] = done.player]
           /\ challenge_objects' = done.objects
           /\ completions' = IF done.ret
                             THEN completions \cup {<<player_id, challenge_id>>}
                             ELSE completions
           /\ lastOp' = Call("complete_challenge", player_id, "-", challenge_id,
                             NoAchievement, 0,
                             IF done.ret THEN "True" ELSE "False",
                             players[player_id])
    /\ UNCHANGED <<player_keys, achievement_rules, challenge_catalog,
                   event_listeners>>

----------------------------------------------------------------------------
(* a behaviour makes at most MaxCalls calls *)
Tick == ncalls < MaxCalls /\ ncalls' = ncalls + 1

(* Spec: the engine's API, called by a client for two player ids *)

RegisterPlayer ==
    /\ Tick
    /\ \E r \in Registrations :
           register_player(r[1], r[2])
AddAchievementRule ==
    /\ Tick
    /\ \E r \in RuleTemplates :
           add_achievement_rule(r)
AddChallenge ==
    /\ Tick
    /\ \E c \in ChallengeTemplates :
           add_challenge(c)
AssignChallenge ==
    /\ Tick
    /\ \E p \in PlayerIds, c \in ChallengeIds :
           assign_challenge(p, c)
CompletePlayerChallenge ==
    /\ Tick
    /\ \E p \in PlayerIds, c \in ChallengeIds :
           complete_player_challenge(p, c)
AwardExperience ==
    /\ Tick
    /\ \E p \in PlayerIds, a \in Amounts :
           award_experience(p, a)

Next ==
    \/ RegisterPlayer
    \/ AddAchievementRule
    \/ AddChallenge
    \/ AssignChallenge
    \/ CompletePlayerChallenge
    \/ AwardExperience

Spec == Init /\ [][Next]_vars

----------------------------------------------------------------------------
(* SpecPlayer: one player, driven through the engine and through direct    *)
(* calls of the Player methods on the object register_player returned      *)

ThePlayer == "p1"

RegisterOne ==
    /\ Tick
    /\ \E u \in Usernames :
           register_player(ThePlayer, u)
AssignOne ==
    /\ Tick
    /\ \E c \in ChallengeIds :
           assign_challenge(ThePlayer, c)
CompleteOne ==
    /\ Tick
    /\ \E c \in ChallengeIds :
           complete_player_challenge(ThePlayer, c)
AwardOne ==
    /\ Tick
    /\ \E a \in Amounts :
           award_experience(ThePlayer, a)
PlayerAddExperience ==
    /\ Tick
    /\ \E a \in PlayerAmounts :
           player_add_experience(ThePlayer, a)
PlayerEarnAchievement ==
    /\ Tick
    /\ \E a \in AchievementTemplates :
           player_earn_achievement(ThePlayer, a)
PlayerCompleteChallenge ==
    /\ Tick
    /\ \E c \in ChallengeIds :
           player_complete_challenge(ThePlayer, c)

NextPlayer ==
    \/ RegisterOne
    \/ AddAchievementRule
    \/ AddChallenge
    \/ AssignOne
    \/ CompleteOne
    \/ AwardOne
    \/ PlayerAddExperience
    \/ PlayerEarnAchievement
    \/ PlayerCompleteChallenge

SpecPlayer == Init /\ [][NextPlayer]_vars

(* SpecEvents: the engine's API with listeners, called for one registered  *)
(* player; the calls that take a player id are also made for an id that is  *)
(* never registered                                                        *)
RegisterThe ==
    /\ Tick
    /\ register_player(ThePlayer, "alice")
CompleteAny ==
    /\ Tick
    /\ \E p \in PlayerIds, c \in ChallengeIds :
           complete_player_challenge(p, c)
AddOneChallenge ==
    /\ Tick
    /\ \E c \in EventChallenges :
           add_challenge(c)
AwardLevel ==
    /\ Tick
    /\ \E a \in EventAmounts :
           award_experience(ThePlayer, a)
On ==
    /\ Tick
    /\ \E e \in EventNames, l \in Listeners :
           on(e, l)
NextEvents ==
    \/ RegisterThe
    \/ AddAchievementRule
    \/ AddOneChallenge
    \/ AssignOne
    \/ CompleteAny
    \/ AwardLevel
    \/ On
SpecEvents == Init /\ [][NextEvents]_vars

(* SpecLevel: one player is taken up the levels by award_experience while  *)
(* level rules and an achievement_earned listener are registered           *)
AddLevelRule ==
    /\ Tick
    /\ \E r \in LevelRules :
           add_achievement_rule(r)
AwardLevels ==
    /\ Tick
    /\ \E a \in LevelAmounts :
           award_experience(ThePlayer, a)
OnEarned ==
    /\ Tick
    /\ \E l \in {k \in Listeners : ~k.raises} :
           on("achievement_earned", l)
NextLevel ==
    \/ RegisterThe
    \/ AddLevelRule
    \/ AwardLevels
    \/ OnEarned
SpecLevel == Init /\ [][NextLevel]_vars

(* SpecBoard: leaderboard queries on an engine with up to three players of *)
(* different usernames, registered in any order, each of them new or       *)
(* holding one achievement                                                 *)
BoardPlayers(player_id) ==
    {NewPlayer(player_id, BoardUsername[player_id])} \cup
    {earn_achievement(NewPlayer(player_id, BoardUsername[player_id]), a) :
         a \in BoardAchievements}
InitBoard ==
    /\ \E ids \in SUBSET BoardIds :
           /\ players \in [ids -> UNION {BoardPlayers(p) : p \in ids}]
           /\ \A p \in ids : players[p] \in BoardPlayers(p)
           /\ player_keys \in [1..Cardinality(ids) -> ids]
           /\ Range(player_keys) = ids
    /\ achievement_rules = <<>>
    /\ challenge_catalog = [c \in ChallengeIds |-> NoRef]
    /\ challenge_objects = <<>>
    /\ event_listeners = [e \in Events |-> <<>>]
    /\ completions = {}
    /\ lastOp = Call("__init__", "-", "-", "-", NoAchievement, 0, "None", NoPlayer)
    /\ ncalls = 0
GetLeaderboard ==
    /\ UNCHANGED ncalls
    /\ \E n \in TopNs :
           get_leaderboard(n)
NextBoard == GetLeaderboard
SpecBoard == InitBoard /\ [][NextBoard]_vars

----------------------------------------------------------------------------
(* Properties *)

(* the player a call addressed, as it is after the call *)
Target == get_player(lastOp.player_id)

IsAddExperience == lastOp.op = "add_experience"

(* C1: Player.add_experience(A) on level L, experience E applies at most   *)
(* one level-up: if E + A >= 100 * L the level becomes L + 1, the          *)
(* experience E + A - 100 * L and the call returns true; otherwise the     *)
(* level stays L, the experience becomes E + A and the call returns false. *)
C1_AddExperienceSingleLevelUp ==
    IsAddExperience =>
        LET L == lastOp.pre.level
            E == lastOp.pre.experience
            A == lastOp.amount
        IN  IF E + A >= 100 * L
            THEN /\ Target.level = L + 1
                 /\ Target.experience = E + A - 100 * L
                 /\ lastOp.ret = "True"
            ELSE /\ Target.level = L
                 /\ Target.experience = E + A
                 /\ lastOp.ret = "False"

(* C1 witness: level 1, experience 0, add 300 crosses the thresholds of    *)
(* level 1 (100) and of level 2 (200) and still ends at level 2            *)
C1_Witness ==
    /\ IsAddExperience
    /\ lastOp.pre.level = 1 /\ lastOp.pre.experience = 0
    /\ lastOp.amount = 300
    /\ Target.level = 2 /\ Target.experience = 200

(* C2: every registered player has level >= 1 and                          *)
(* 0 <= experience < 100 * level                                           *)
C2_ExperienceBelowThreshold ==
    \A p \in DOMAIN players :
        /\ players[p].level >= 1
        /\ 0 <= players[p].experience
        /\ players[p].experience < 100 * players[p].level

(* C7 as stated: an amount below the current level's threshold             *)
(* (amount < 100 * level) leaves the level unchanged and makes the         *)
(* experience the previous experience plus the amount, whatever the        *)
(* previous experience was                                                 *)
C7_AmountBelowThreshold ==
    (IsAddExperience /\ lastOp.amount < 100 * lastOp.pre.level) =>
        /\ Target.level = lastOp.pre.level
        /\ Target.experience = lastOp.pre.experience + lastOp.amount

(* C7: when the previous experience plus the amount stays below the        *)
(* current level's threshold, add_experience leaves the level unchanged,   *)
(* makes the experience the previous experience plus the amount and        *)
(* returns false                                                           *)
C7_SumBelowThreshold ==
    (IsAddExperience
     /\ lastOp.pre.experience + lastOp.amount < 100 * lastOp.pre.level) =>
        /\ Target.level = lastOp.pre.level
        /\ Target.experience = lastOp.pre.experience + lastOp.amount
        /\ lastOp.ret = "False"

(* C7 witness: a positive amount added to a positive experience, the sum   *)
(* below the threshold                                                     *)
C7_Witness ==
    /\ IsAddExperience
    /\ lastOp.pre.experience > 0 /\ lastOp.amount >= 0
    /\ lastOp.pre.experience + lastOp.amount < 100 * lastOp.pre.level
    /\ Target.experience = lastOp.pre.experience + lastOp.amount

(* C8 as stated: adding exactly 100 * level increments the level by 1 and  *)
(* leaves the experience at 0                                              *)
C8_ExactThresholdResets ==
    (IsAddExperience /\ lastOp.amount = 100 * lastOp.pre.level) =>
        /\ Target.level = lastOp.pre.level + 1
        /\ Target.experience = 0

(* C8: adding exactly 100 * level increments the level by 1, returns true  *)
(* and leaves the experience at its previous value (carry-over), which is  *)
(* 0 when the previous experience was 0                                    *)
C8_ExactThresholdCarriesOver ==
    (IsAddExperience /\ lastOp.amount = 100 * lastOp.pre.level) =>
        /\ Target.level = lastOp.pre.level + 1
        /\ Target.experience = lastOp.pre.experience
        /\ lastOp.ret = "True"

(* C8 witness: exactly the threshold added to a positive experience *)
C8_Witness ==
    /\ IsAddExperience
    /\ lastOp.amount = 100 * lastOp.pre.level
    /\ lastOp.pre.experience > 0
    /\ Target.level = lastOp.pre.level + 1

----------------------------------------------------------------------------
(* the Challenge object player p holds under challenge id c *)
Instance(p, c) == challenge_objects[players[p].challenges[c]]

Tracks(p, c) == p \in DOMAIN players /\ players[p].challenges[c] # NoRef

IsComplete ==
    lastOp.op \in {"complete_challenge", "complete_player_challenge"}

(* C3: completion state is per player: when two registered players are     *)
(* both assigned the same catalog challenge and only one of them has       *)
(* completed it, the catalog entry and the other player's instance are not *)
(* completed, and a complete_player_challenge by a player who tracks the   *)
(* challenge and has not completed it returns true                         *)
C3_CompletionPerPlayer ==
    /\ \A p \in DOMAIN players, q \in DOMAIN players, c \in ChallengeIds :
           (/\ p # q
            /\ Tracks(p, c) /\ Tracks(q, c)
            /\ <<p, c>> \in completions
            /\ <<q, c>> \notin completions)
           => /\ ~Instance(q, c).completed
              /\ ~challenge_objects[challenge_catalog[c]].completed
    /\ (/\ lastOp.op = "complete_player_challenge"
        /\ Tracks(lastOp.player_id, lastOp.challenge_id)
        /\ <<lastOp.player_id, lastOp.challenge_id>> \notin completions)
       => lastOp.ret = "True"

(* the achievement ids of a player's _achievements list are pairwise       *)
(* distinct                                                                *)
DistinctAchievementIds(pl) ==
    \A i \in 1..Len(pl.achievements), j \in 1..Len(pl.achievements) :
        i # j => pl.achievements[i].id # pl.achievements[j].id

(* C4: each achievement id appears at most once in a player's earned       *)
(* collection, and earn_achievement with an id the player already holds    *)
(* leaves the collection, total_points, experience and level unchanged     *)
C4_AchievementOnce ==
    /\ \A p \in DOMAIN players : DistinctAchievementIds(players[p])
    /\ (/\ lastOp.op = "earn_achievement"
        /\ \E k \in 1..Len(lastOp.pre.achievements) :
               lastOp.pre.achievements[k].id = lastOp.achievement.id)
       => /\ Target.achievements = lastOp.pre.achievements
          /\ Target.total_points = lastOp.pre.total_points
          /\ Target.experience = lastOp.pre.experience
          /\ Target.level = lastOp.pre.level

(* C4 witness: earn_achievement of an achievement with other points but    *)
(* the id of one a rule evaluation granted before                          *)
C4_Witness ==
    /\ lastOp.op = "earn_achievement"
    /\ lastOp.achievement = [id |-> "a1", points |-> 50]
    /\ Len(lastOp.pre.achievements) = 2
    /\ [id |-> "a1", points |-> 100] \in Range(lastOp.pre.achievements)
    /\ Len(Target.achievements) = 2

(* C5: a player's challenge moves only from assigned to completed: a       *)
(* completed instance stays completed, and a complete_challenge or         *)
(* complete_player_challenge for an id whose instance is completed returns *)
(* false and changes no player's total_points, experience, level or skill  *)
(* levels                                                                  *)
C5_CompletedIsFinal ==
    [][ /\ \A p \in DOMAIN players, c \in ChallengeIds :
               (Tracks(p, c) /\ Instance(p, c).completed)
               => (Tracks(p, c) /\ Instance(p, c).completed)'
        /\ (/\ IsComplete'
            /\ Tracks(lastOp'.player_id, lastOp'.challenge_id)
            /\ Instance(lastOp'.player_id, lastOp'.challenge_id).completed)
           => /\ lastOp'.ret = "False"
              /\ \A p \in DOMAIN players :
                     /\ players'[p].total_points = players[p].total_points
                     /\ players'[p].experience = players[p].experience
                     /\ players'[p].level = players[p].level
                     /\ players'[p].skill_levels = players[p].skill_levels
      ]_vars

(* C5 witness: the player completed the challenge before, and completes    *)
(* it again                                                                *)
C5_Witness ==
    /\ IsComplete
    /\ lastOp.ret = "False"
    /\ <<lastOp.player_id, lastOp.challenge_id>> \in completions
    /\ Instance(lastOp.player_id, lastOp.challenge_id).completed

(* the skills a challenge targets *)
Targets(challenge) == Range(challenge.skills)

(* C6: Player.complete_challenge(id) returns false and changes nothing     *)
(* when id is not among the player's challenges; when it is assigned and   *)
(* not completed it returns true, marks the instance completed, adds the   *)
(* challenge's points to total_points, passes them through add_experience  *)
(* (at most one level-up), raises every skill the challenge targets by     *)
(* exactly 1 and leaves the other skill levels unchanged                   *)
C6_CompleteChallenge ==
    [][ (lastOp'.op = "complete_challenge") =>
            LET p == lastOp'.player_id
                c == lastOp'.challenge_id
            IN  IF ~Tracks(p, c)
                THEN /\ lastOp'.ret = "False"
                     /\ players' = players
                     /\ challenge_objects' = challenge_objects
                ELSE ~Instance(p, c).completed =>
                     LET ch == Instance(p, c)
                         E == players[p].experience + ch.points
                         L == players[p].level
                     IN  /\ lastOp'.ret = "True"
                         /\ challenge_objects'[players'[p].challenges[c]].completed
                         /\ players'[p].total_points =
                                players[p].total_points + ch.points
                         /\ players'[p].level = IF E >= 100 * L THEN L + 1 ELSE L
                         /\ players'[p].experience =
                                IF E >= 100 * L THEN E - 100 * L ELSE E
                         /\ \A s \in Skill :
                                players'[p].skill_levels[s] =
                                    IF s \in Targets(ch)
                                    THEN players[p].skill_levels[s] + 1
                                    ELSE players[p].skill_levels[s]
      ]_vars

(* C9: total_points of every player is >= 0 and no step lowers it *)
C9_TotalPointsMonotone ==
    [][ \A p \in DOMAIN players' :
            /\ players'[p].total_points >= 0
            /\ p \in DOMAIN players =>
                   players'[p].total_points >= players[p].total_points
      ]_vars

(* C9 witness: a player gains the points of a challenge and, in the rule   *)
(* evaluation of the same call, the points of an achievement, while        *)
(* another player is registered                                            *)
C9_Witness ==
    /\ lastOp.op = "complete_player_challenge"
    /\ lastOp.ret = "True"
    /\ Len(Target.achievements) > Len(lastOp.pre.achievements)
    /\ Target.total_points > lastOp.pre.total_points + 150
    /\ Len(player_keys) = 2

(* C10: register_player with a registered id fails with an error and       *)
(* leaves the registry unchanged; with a fresh id it adds exactly one      *)
(* player, at level 1, experience 0, total_points 0, and leaves the other  *)
(* players unchanged                                                       *)
C10_RegisterPlayer ==
    [][ (lastOp'.op = "register_player") =>
            LET id == lastOp'.player_id
            IN  IF id \in DOMAIN players
                THEN /\ lastOp'.ret = "ValueError"
                     /\ players' = players
                     /\ player_keys' = player_keys
                ELSE /\ lastOp'.ret = "Player"
                     /\ DOMAIN players' = DOMAIN players \cup {id}
                     /\ player_keys' = Append(player_keys, id)
                     /\ players'[id].username = lastOp'.username
                     /\ players'[id].level = 1
                     /\ players'[id].experience = 0
                     /\ players'[id].total_points = 0
                     /\ players'[id].achievements = <<>>
                     /\ \A q \in DOMAIN players : players'[q] = players[q]
      ]_vars

(* C10 witness: a registered player that has made progress is registered   *)
(* again under another username and keeps its own                          *)
C10_Witness ==
    /\ lastOp.op = "register_player"
    /\ lastOp.ret = "ValueError"
    /\ Target.username # lastOp.username
    /\ Target.level > 1
    /\ Target.total_points > 0

----------------------------------------------------------------------------
(* Engine calls and their listeners *)

(* the call reaches a completion that cannot succeed: the player is not    *)
(* registered, does not track the challenge, or tracks a completed one     *)
CannotComplete(p, c) ==
    \/ p \notin DOMAIN players
    \/ players[p].challenges[c] = NoRef
    \/ challenge_objects[players[p].challenges[c]].completed

(* the rule at position i is due for the player: not held, condition true *)
Pending(pl, i) ==
    /\ check(achievement_rules[i], pl)
    /\ \A k \in 1..Len(pl.achievements) :
           pl.achievements[k].id # achievement_rules[i].achievement.id

(* C11: GameEngine.complete_player_challenge returns false and changes     *)
(* nothing when it cannot complete: for an unknown player, an unassigned   *)
(* challenge id or an already completed challenge it returns false; a      *)
(* call that returns false registers no player, mutates no state, invokes  *)
(* no listener and grants no achievement (visits no rule).                 *)
C11_FailedCompletionChangesNothing ==
    [][lastOp'.op = "complete_player_challenge" =>
          /\ \A p \in PlayerIds, c \in ChallengeIds :
                 /\ lastOp'.player_id = p
                 /\ lastOp'.challenge_id = c
                 /\ CannotComplete(p, c)
                 => lastOp'.ret = "False"
          /\ lastOp'.ret = "False" =>
                 /\ UNCHANGED <<players, player_keys, achievement_rules,
                                challenge_catalog, challenge_objects,
                                event_listeners>>
                 /\ lastOp'.trace = <<>>]_vars

(* a second completion of a completed challenge returned false although a  *)
(* challenge_completed listener is registered and a rule is due            *)
C11_Witness ==
    /\ lastOp.op = "complete_player_challenge"
    /\ lastOp.ret = "False"
    /\ <<lastOp.player_id, lastOp.challenge_id>> \in completions
    /\ event_listeners["challenge_completed"] # <<>>
    /\ \E i \in 1..Len(achievement_rules) : Pending(Target, i)

Holds(pl, id) == \E k \in 1..Len(pl.achievements) : pl.achievements[k].id = id

(* the entries of a trace that are invocations of listeners of an event *)
Invocations(trace, event) == SelectSeq(trace, LAMBDA e : e.event = event)

(* C12: with the rule "a5 when level >= 5" registered, whenever a call to  *)
(* award_experience raises the player's level to 5 the player holds a5     *)
(* when the call returns, and the call that grants a5 invokes each         *)
(* achievement_earned listener once for it while a call made when a5 is    *)
(* held invokes none for it.                                               *)
C12_LevelFiveGranted ==
    [][/\ lastOp'.op = "award_experience"
       /\ lastOp'.player_id \in DOMAIN players
       /\ LevelFiveRule \in Range(achievement_rules)
       => LET before == players[lastOp'.player_id]
              after == players'[lastOp'.player_id]
              earned == SelectSeq(lastOp'.trace,
                            LAMBDA e : /\ e.event = "achievement_earned"
                                       /\ e.arg = "a5")
          IN  /\ before.level < 5 /\ after.level = 5 => Holds(after, "a5")
              /\ Len(earned) =
                     IF ~Holds(before, "a5") /\ Holds(after, "a5")
                     THEN Len(event_listeners["achievement_earned"])
                     ELSE 0]_vars

(* the positions of a trace that hold an entry of one of the events *)
Positions(trace, events) == {i \in 1..Len(trace) : trace[i].event \in events}

(* a listener raised during the call *)
Raised(trace) == \E i \in 1..Len(trace) : trace[i].outcome = "raised"

(* C13: for a registered player award_experience(amount) invokes the       *)
(* level_up listeners exactly when Player.add_experience(amount) on the    *)
(* same state reports a level-up (experience + amount reaches 100 * level) *)
(* and returns that boolean; it then runs one evaluation pass over the     *)
(* rules whether or not the level went up, so that every level_up          *)
(* listener runs before any rule is visited and before any                 *)
(* achievement_earned listener of the call. (A listener that raises ends   *)
(* the call, see C14.)                                                     *)
C13_AwardExperienceOrder ==
    [][/\ lastOp'.op = "award_experience"
       /\ lastOp'.player_id \in DOMAIN players
       => LET before == players[lastOp'.player_id]
              levels_up ==
                  before.experience + lastOp'.amount >= 100 * before.level
              trace == lastOp'.trace
              level_ups == Invocations(trace, "level_up")
              visits == Invocations(trace, "rule")
          IN  /\ level_ups # <<>> <=>
                     levels_up /\ event_listeners["level_up"] # <<>>
              /\ ~Raised(trace) =>
                     /\ lastOp'.ret = IF levels_up THEN "True" ELSE "False"
                     /\ Len(level_ups) =
                            IF levels_up
                            THEN Len(event_listeners["level_up"]) ELSE 0
              /\ ~Raised(level_ups) =>
                     (visits # <<>> <=> achievement_rules # <<>>)
              /\ ~Raised(trace) => Len(visits) = Len(achievement_rules)
              /\ \A i \in 1..Len(visits) : visits[i].rule = i
              /\ \A i \in Positions(trace, {"level_up"}),
                    j \in Positions(trace, {"rule", "achievement_earned"}) :
                     i < j]_vars

(* an award levelled the player up, a level_up listener ran, and the pass  *)
(* that followed granted an achievement and invoked an achievement_earned  *)
(* listener                                                                *)
C13_Witness ==
    /\ lastOp.op = "award_experience"
    /\ lastOp.ret = "True"
    /\ Invocations(lastOp.trace, "level_up") # <<>>
    /\ Invocations(lastOp.trace, "achievement_earned") # <<>>

IsEngineCall == lastOp.op \in {"award_experience", "complete_player_challenge"}

(* the number of rules a trace shows as granted *)
Granted(trace) ==
    Cardinality({i \in 1..Len(trace) : trace[i].outcome = "granted"})

(* C14: a listener that raises is not isolated: the exception leaves       *)
(* award_experience or complete_player_challenge, the call invokes no      *)
(* further listener and visits no further rule after it, and the player    *)
(* holds no achievement beyond those granted before it.                    *)
C14_ListenerExceptionPropagates ==
    [][/\ lastOp'.op \in {"award_experience", "complete_player_challenge"}
       /\ lastOp'.player_id \in DOMAIN players
       => LET trace == lastOp'.trace
              before == players[lastOp'.player_id]
              after == players'[lastOp'.player_id]
          IN  /\ \A i \in 1..Len(trace) :
                     trace[i].listener # "-" =>
                         (trace[i].outcome = "raised" <=>
                              \E l \in Listeners : /\ l.name = trace[i].listener
                                                   /\ l.raises)
              /\ \A i \in 1..Len(trace) :
                     trace[i].outcome = "raised" => i = Len(trace)
              /\ lastOp'.ret = "Exception" <=> Raised(trace)
              /\ Len(after.achievements) =
                     Len(before.achievements) + Granted(trace)]_vars

(* the first achievement_earned listener raised while a second one is      *)
(* registered after it and a later rule is due                             *)
C14_Witness ==
    /\ IsEngineCall
    /\ lastOp.ret = "Exception"
    /\ lastOp.trace[Len(lastOp.trace)].event = "achievement_earned"
    /\ Len(Invocations(lastOp.trace, "achievement_earned")) = 1
    /\ Len(event_listeners["achievement_earned"]) > 1
    /\ \E i \in 1..Len(achievement_rules) :
           /\ Pending(Target, i)
           /\ \A j \in 1..Len(lastOp.trace) : lastOp.trace[j].rule < i

----------------------------------------------------------------------------
(* Leaderboard *)

(* the place in the order of registration of the player of a username *)
Registered(username) ==
    CHOOSE i \in 1..Len(player_keys) :
        players[player_keys[i]].username = username

(* C15: get_leaderboard(top_n), top_n >= 0, returns min(top_n, number of   *)
(* players) entries, one per listed player, ranked 1, 2, ... in order,     *)
(* with total_points non-increasing down the list; no player left out has  *)
(* more points than a listed one, and players with equal points keep the   *)
(* order of their registration. Players with points 30, 10, 20 get the     *)
(* ranks 1, 2, 3 for the points 30, 20, 10.                                *)
C15_Leaderboard ==
    lastOp.op = "get_leaderboard" =>
        LET board == lastOp.board
            top_n == lastOp.amount
            listed == {board[i].summary.username : i \in 1..Len(board)}
            points == [i \in 1..Len(player_keys) |->
                          players[player_keys[i]].total_points]
        IN  /\ Len(board) = IF top_n < Len(player_keys) THEN top_n
                            ELSE Len(player_keys)
            /\ \A i \in 1..Len(board) :
                   /\ board[i].rank = i
                   /\ \E p \in DOMAIN players :
                          board[i].summary = get_progress_summary(players[p])
            /\ Cardinality(listed) = Len(board)
            /\ \A i, j \in 1..Len(board) :
                   i < j =>
                       /\ board[i].summary.total_points
                              >= board[j].summary.total_points
                       /\ board[i].summary.total_points
                              = board[j].summary.total_points
                          => Registered(board[i].summary.username)
                                 < Registered(board[j].summary.username)
            /\ \A p \in DOMAIN players, i \in 1..Len(board) :
                   players[p].username \notin listed =>
                       players[p].total_points
                           <= board[i].summary.total_points
            /\ points = <<30, 10, 20>> /\ top_n >= 3 =>
                   [i \in 1..3 |-> board[i].summary.total_points]
                       = <<30, 20, 10>>

(* the leaderboard of three players with points 30, 10, 20 *)
C15_Witness ==
    /\ lastOp.op = "get_leaderboard"
    /\ Len(player_keys) = 3
    /\ [i \in 1..3 |-> players[player_keys[i]].total_points] = <<30, 10, 20>>
    /\ Len(lastOp.board) = 3

----------------------------------------------------------------------------
(* Catalog and listener registration *)

(* C16: GameEngine.assign_challenge returns true exactly when the player   *)
(* is registered and the challenge id is in the catalog; a call that       *)
(* returns false changes no state; a call for a challenge the player       *)
(* already tracks returns true and leaves the player's instance, with its  *)
(* completed flag, as it was; otherwise the player now tracks the catalog  *)
(* challenge.                                                              *)
C16_AssignChallenge ==
    [][lastOp'.op = "assign_challenge" =>
          \A p \in PlayerIds, c \in ChallengeIds :
              lastOp'.player_id = p /\ lastOp'.challenge_id = c =>
                  /\ lastOp'.ret = "True" <=>
                         p \in DOMAIN players /\ challenge_catalog[c] # NoRef
                  /\ lastOp'.ret = "False" =>
                         UNCHANGED <<players, player_keys, achievement_rules,
                                     challenge_catalog, challenge_objects,
                                     event_listeners>>
                  /\ lastOp'.ret = "True" =>
                         /\ UNCHANGED <<player_keys, achievement_rules,
                                        challenge_catalog, challenge_objects,
                                        event_listeners>>
                         /\ players' = [players EXCEPT ![p].challenges[c] =
                                IF Tracks(p, c) THEN @
                                ELSE challenge_catalog[c]]]_vars

(* an assignment returned true for a challenge the player tracks and has   *)
(* completed, while the catalog holds another challenge under that id      *)
C16_Witness ==
    /\ lastOp.op = "assign_challenge"
    /\ lastOp.ret = "True"
    /\ lastOp.pre.challenges[lastOp.challenge_id] # NoRef
    /\ Instance(lastOp.player_id, lastOp.challenge_id).completed
    /\ challenge_catalog[lastOp.challenge_id]
           # Target.challenges[lastOp.challenge_id]

(* C17: catalog mutation is append-only: add_challenge never removes or    *)
(* replaces a challenge already in the catalog, also when the new          *)
(* challenge has an id that is already present, and add_achievement_rule   *)
(* appends exactly one rule at the end without dropping or reordering the  *)
(* rules, also when a rule for the same achievement id exists.             *)
C17_CatalogAppendOnly ==
    [][/\ lastOp'.op = "add_challenge" =>
              \A c \in ChallengeIds :
                  challenge_catalog[c] # NoRef =>
                      /\ challenge_catalog'[c] = challenge_catalog[c]
                      /\ challenge_objects'[challenge_catalog'[c]]
                             = challenge_objects[challenge_catalog[c]]
       /\ lastOp'.op = "add_achievement_rule" =>
              /\ Len(achievement_rules') = Len(achievement_rules) + 1
              /\ SubSeq(achievement_rules', 1, Len(achievement_rules))
                     = achievement_rules
              /\ achievement_rules'[Len(achievement_rules')].achievement
                     = lastOp'.achievement]_vars

(* the names of the listeners a trace shows invoked for an event and arg *)
Invoked(trace, event, arg) ==
    LET entries == SelectSeq(trace,
                       LAMBDA e : e.event = event /\ e.arg = arg)
    IN  [i \in 1..Len(entries) |-> entries[i].listener]

(* the names of the listeners registered for an event *)
RegisteredFor(event) ==
    [i \in 1..Len(event_listeners[event]) |-> event_listeners[event][i].name]

IsPrefix(s, t) == Len(s) <= Len(t) /\ s = SubSeq(t, 1, Len(s))

(* C18: on(event_name, listener) with a name other than level_up,          *)
(* achievement_earned and challenge_completed raises nothing and leaves    *)
(* the listener registry unchanged; with a supported name it appends the   *)
(* listener to that event's list only. The listeners an engine call        *)
(* invokes for an event are those registered for it, in the order of       *)
(* their registration (all of them when none raises).                      *)
C18_ListenerRegistry ==
    [][/\ lastOp'.op = "on" =>
              /\ lastOp'.ret = "None"
              /\ UNCHANGED <<players, player_keys, achievement_rules,
                             challenge_catalog, challenge_objects>>
              /\ DOMAIN event_listeners' = Events
              /\ \A e \in Events :
                     IF e = lastOp'.challenge_id
                     THEN /\ Len(event_listeners'[e])
                                 = Len(event_listeners[e]) + 1
                          /\ IsPrefix(event_listeners[e], event_listeners'[e])
                          /\ event_listeners'[e][Len(event_listeners'[e])].name
                                 = lastOp'.username
                     ELSE event_listeners'[e] = event_listeners[e]
       /\ lastOp'.op \in {"award_experience", "complete_player_challenge"} =>
              \A i \in 1..Len(lastOp'.trace) :
                  LET entry == lastOp'.trace[i]
                      invoked == Invoked(lastOp'.trace, entry.event, entry.arg)
                  IN  entry.event \in Events =>
                          /\ IsPrefix(invoked, RegisteredFor(entry.event))
                          /\ ~Raised(lastOp'.trace) =>
                                 invoked = RegisteredFor(entry.event)]_vars

(* on was called with an unsupported event name on an engine that has      *)
(* listeners registered                                                    *)
C18_Witness ==
    /\ lastOp.op = "on"
    /\ lastOp.challenge_id \notin Events
    /\ \E e \in Events : Len(event_listeners[e]) > 1

----------------------------------------------------------------------------
(* The rule evaluation pass *)

(* the points of the rules that the visits from position i on granted *)
RECURSIVE GrantedPoints(_, _)
GrantedPoints(visits, i) ==
    IF i > Len(visits) THEN 0
    ELSE (IF visits[i].outcome = "granted"
          THEN achievement_rules[visits[i].rule].achievement.points ELSE 0)
         + GrantedPoints(visits, i + 1)

(* the condition of a rule on a level and a number of points *)
Satisfied(rule, level, total_points) ==
    \/ rule.condition.kind = "level" /\ level >= rule.condition.n
    \/ rule.condition.kind = "points" /\ total_points >= rule.condition.n

(* C19: one evaluation pass visits the rules in registration order, each   *)
(* once; a rule is granted exactly when, at the moment of its visit, the   *)
(* player does not hold its achievement id (earlier grants of the pass     *)
(* included) and its predicate is true on the player's state (changes by   *)
(* earlier grants of the pass included); each grant invokes the            *)
(* achievement_earned listeners before the next rule is visited, so the    *)
(* events follow registration order; the player ends with the achievements *)
(* held before plus the granted ones in that order, each id once.          *)
C19_RulePass ==
    [][/\ lastOp'.op \in {"award_experience", "complete_player_challenge"}
       /\ lastOp'.player_id \in DOMAIN players
       => LET trace == lastOp'.trace
              before == players[lastOp'.player_id]
              after == players'[lastOp'.player_id]
              visits == Invocations(trace, "rule")
              granted == SelectSeq(visits, LAMBDA v : v.outcome = "granted")
              earned == Invocations(trace, "achievement_earned")
              completed ==
                  lastOp'.op = "award_experience" \/ lastOp'.ret # "False"
              held(i) ==
                  \/ Holds(before, visits[i].arg)
                  \/ \E j \in 1..(i - 1) : /\ visits[j].outcome = "granted"
                                           /\ visits[j].arg = visits[i].arg
          IN  /\ \A i \in 1..Len(visits) :
                     /\ visits[i].rule = i
                     /\ visits[i].arg = achievement_rules[i].achievement.id
                     /\ visits[i].total_points + GrantedPoints(visits, i)
                            = after.total_points
                     /\ visits[i].outcome = "granted" <=>
                            /\ ~held(i)
                            /\ Satisfied(achievement_rules[i], visits[i].level,
                                         visits[i].total_points)
                     /\ visits[i].outcome = "held" <=> held(i)
              /\ completed /\ ~Raised(trace) =>
                     Len(visits) = Len(achievement_rules)
              /\ \A i \in 1..Len(trace) :
                     trace[i].event = "achievement_earned" =>
                         \E j \in 1..(i - 1) :
                             /\ trace[j].outcome = "granted"
                             /\ trace[j].arg = trace[i].arg
                             /\ \A k \in (j + 1)..i :
                                    trace[k].event = "achievement_earned"
              /\ ~Raised(trace) =>
                     Len(earned) =
                         Len(granted) * Len(event_listeners["achievement_earned"])
              /\ after.achievements =
                     before.achievements \o
                         [i \in 1..Len(granted) |->
                             achievement_rules[granted[i].rule].achievement]
              /\ DistinctAchievementIds(after)]_vars

(* one pass granted two achievements, the second one due only after the    *)
(* first grant, skipped a second rule for an achievement id it had just    *)
(* granted, and invoked an achievement_earned listener for each grant      *)
C19_Witness ==
    /\ IsEngineCall
    /\ ~Raised(lastOp.trace)
    /\ Granted(lastOp.trace) >= 2
    /\ Len(Invocations(lastOp.trace, "achievement_earned")) >= 2
    /\ \E i, j \in 1..Len(lastOp.trace) :
           /\ i < j
           /\ lastOp.trace[i].outcome = "granted"
           /\ lastOp.trace[j].outcome = "held"
           /\ lastOp.trace[i].arg = lastOp.trace[j].arg
    /\ \E i \in 1..Len(lastOp.trace) :
           /\ lastOp.trace[i].outcome = "granted"
           /\ ~Satisfied(achievement_rules[lastOp.trace[i].rule],
                         lastOp.trace[1].level, lastOp.trace[1].total_points)

(* C20: on a successful complete_player_challenge the challenge_completed  *)
(* listeners run when the player's challenge, points, experience, level    *)
(* and skills are already updated and before the rules are evaluated:      *)
(* every challenge_completed listener of the call runs before any rule     *)
(* visit and any achievement_earned listener of the call, and the rules    *)
(* are evaluated on the player's state after the completion.               *)
C20_CompletionOrder ==
    [][/\ lastOp'.op = "complete_player_challenge"
       /\ lastOp'.ret # "False"
       => LET trace == lastOp'.trace
              before == players[lastOp'.player_id]
              after == players'[lastOp'.player_id]
              ref == before.challenges[lastOp'.challenge_id]
              challenge == challenge_objects[ref]
              points == before.total_points + challenge.points
              level == IF before.experience + challenge.points
                              >= 100 * before.level
                       THEN before.level + 1 ELSE before.level
              completions_heard == Invocations(trace, "challenge_completed")
              visits == Invocations(trace, "rule")
          IN  /\ ~challenge_objects[ref].completed
              /\ challenge_objects'[ref].completed
              /\ \A s \in Targets(challenge) :
                     after.skill_levels[s] > before.skill_levels[s]
              /\ after.total_points = points + GrantedPoints(visits, 1)
              /\ \A i \in 1..Len(completions_heard) :
                     /\ completions_heard[i].arg = lastOp'.challenge_id
                     /\ completions_heard[i].total_points = points
                     /\ completions_heard[i].level = level
              /\ IsPrefix(Invoked(trace, "challenge_completed",
                                  lastOp'.challenge_id),
                          RegisteredFor("challenge_completed"))
              /\ ~Raised(completions_heard) =>
                     /\ Len(completions_heard)
                            = Len(event_listeners["challenge_completed"])
                     /\ visits # <<>> <=> achievement_rules # <<>>
              /\ visits # <<>> =>
                     /\ visits[1].total_points = points
                     /\ visits[1].level = level
              /\ \A i \in Positions(trace, {"challenge_completed"}),
                    j \in Positions(trace, {"rule", "achievement_earned"}) :
                     i < j]_vars

(* a completion invoked a challenge_completed listener and then, in the    *)
(* pass, granted an achievement that is due only with the challenge's      *)
(* points and invoked an achievement_earned listener                       *)
C20_Witness ==
    /\ lastOp.op = "complete_player_challenge"
    /\ lastOp.ret = "True"
    /\ Invocations(lastOp.trace, "challenge_completed") # <<>>
    /\ Invocations(lastOp.trace, "achievement_earned") # <<>>
    /\ \E i \in 1..Len(lastOp.trace) :
           /\ lastOp.trace[i].outcome = "granted"
           /\ Satisfied(achievement_rules[lastOp.trace[i].rule],
                        lastOp.trace[i].level, lastOp.trace[i].total_points)
           /\ ~Satisfied(achievement_rules[lastOp.trace[i].rule],
                         lastOp.pre.level, lastOp.pre.total_points)

----------------------------------------------------------------------------
(* Accounting *)

(* the sum of the points of a sequence of achievements *)
RECURSIVE AchievementPoints(_)
AchievementPoints(achievements) ==
    IF achievements = <<>> THEN 0
    ELSE Head(achievements).points + AchievementPoints(Tail(achievements))

(* the sum of the points of the challenges among ids that the player       *)
(* tracks and that are marked completed                                    *)
RECURSIVE CompletedPoints(_, _)
CompletedPoints(pl, ids) ==
    IF ids = {} THEN 0
    ELSE LET c == CHOOSE x \in ids : TRUE
             ref == pl.challenges[c]
         IN  (IF ref # NoRef /\ challenge_objects[ref].completed
              THEN challenge_objects[ref].points ELSE 0)
             + CompletedPoints(pl, ids \ {c})

(* C21: in every reachable state each player's total_points equals the sum *)
(* of the points of the achievements the player holds plus the sum of the  *)
(* points of the challenges of the player's collection that are marked     *)
(* completed.                                                              *)
C21_PointsAccounting ==
    \A p \in DOMAIN players :
        players[p].total_points =
            AchievementPoints(players[p].achievements)
                + CompletedPoints(players[p], ChallengeIds)

(* C22: whenever award_experience or a successful                          *)
(* complete_player_challenge returns normally, no registered rule is left  *)
(* whose achievement id the player does not hold and whose predicate is    *)
(* true on the player's final state: one pass reaches a fixpoint.          *)
C22_RulePassFixpoint ==
    /\ lastOp.player_id \in DOMAIN players
    /\ \/ lastOp.op = "award_experience" /\ lastOp.ret \in {"True", "False"}
       \/ lastOp.op = "complete_player_challenge" /\ lastOp.ret = "True"
    => \A i \in 1..Len(achievement_rules) : ~Pending(Target, i)

(* C23: every increase of a player's level caused by an engine operation   *)
(* is announced by level_up: an award_experience or                        *)
(* complete_player_challenge call in which no listener raises invokes each *)
(* registered level_up listener once per level the player gained in the    *)
(* call (by the awarded amount, by challenge points or by the points of    *)
(* achievements granted in the rule pass), so that the invocations of a    *)
(* listener registered from the start add up to the level minus 1.         *)
C23_LevelUpAnnounced ==
    [][/\ lastOp'.op \in {"award_experience", "complete_player_challenge"}
       /\ lastOp'.player_id \in DOMAIN players
       /\ ~Raised(lastOp'.trace)
       => Len(Invocations(lastOp'.trace, "level_up")) =
              Len(event_listeners["level_up"])
                  * (players'[lastOp'.player_id].level
                         - players[lastOp'.player_id].level)]_vars

(* C24: in every reachable state, for each player,                         *)
(* 100 * (1 + 2 + ... + (level - 1)) + experience equals the sum of all    *)
(* amounts passed to the player's add_experience (awarded amounts, points  *)
(* of granted achievements, points of completed challenges): a level-up    *)
(* neither loses nor creates experience.                                   *)
C24_ExperienceConserved ==
    \A p \in DOMAIN players :
        100 * (((players[p].level - 1) * players[p].level) \div 2)
            + players[p].experience
        = players[p].experience_added

(* a player beyond level 2 with experience left, who was given experience  *)
(* directly, by an achievement and by a completed challenge                *)
C24_Witness ==
    /\ IsAddExperience
    /\ lastOp.amount > 0
    /\ Target.level > 2
    /\ Target.experience > 0
    /\ Target.achievements # <<>>
    /\ \E c \in ChallengeIds : <<lastOp.player_id, c>> \in completions

====
